---- MODULE Spec2Model ----
(***************************************************************************)
(* Model of the treasury-dts-dashboard pipeline:                           *)
(*   app/lib/dts_loader.py   file locator, loaders, enrichment             *)
(*   app/pages/1_Flows.py    cached enriched table, two-level Sankey       *)
(*   app/pages/2_Drilldown.py  cached enriched table, three-level Sankey   *)
(* Text is modelled by TLC strings (Len, Head, Tail, SubSeq, \o work on    *)
(* them), tables by sequences of records, amounts by integers.             *)
(***************************************************************************)
EXTENDS Integers, Sequences, FiniteSets, TLC

VARIABLES
    dataRaw,    \* the folder data/raw: [exists, files (in glob order)]
    found,      \* outcome of the last find_*_csv call
    txFile,     \* the deposits/withdrawals CSV as read: [columns, rows]
    txOut,      \* outcome of load_deposits_withdrawals
    mapFile,    \* the mapping CSV as read: [columns, rows]
    mapOut,     \* outcome of load_category_map
    df,         \* a loaded transaction table handed to enrich_with_rollups
    enriched,   \* outcome of enrich_with_rollups
    disk,       \* contents of the two source files, by file name
    cache,      \* st.cache_data entries of get_enriched, one per page
    served,     \* last get_enriched() return per page, with the contents read
    flowsDf,    \* enriched table the Flows page works on
    flowsCtl,   \* widget values of the Flows page
    flowsOut,   \* what the Flows page run handed to the renderer
    drillDf,    \* enriched table the Drilldown page works on
    drillCtl,   \* widget values of the Drilldown page
    session,    \* st.session_state: the cabinet selected on the Flows page
    drillOut    \* what the Drilldown page run handed to the renderer

locVars   == <<dataRaw, found>>
txVars    == <<txFile, txOut>>
mapVars   == <<mapFile, mapOut, df, enriched>>
cacheVars == <<disk, cache, served>>
flowsVars == <<flowsDf, flowsCtl, flowsOut, session>>
drillVars == <<drillDf, drillCtl, drillOut>>
vars == <<dataRaw, found, txFile, txOut, mapFile, mapOut, df, enriched,
          disk, cache, served, flowsDf, flowsCtl, flowsOut,
          drillDf, drillCtl, drillOut, session>>

None == [kind |-> "none"]

LocIdle   == dataRaw = None /\ found = None
TxIdle    == txFile = None /\ txOut = None
MapIdle   == mapFile = None /\ mapOut = None /\ df = <<>> /\ enriched = None
CacheIdle == disk = None /\ cache = None /\ served = None
FlowsIdle == flowsDf = <<>> /\ flowsCtl = None /\ flowsOut = None /\ session = None
DrillIdle == drillDf = <<>> /\ drillCtl = None /\ drillOut = None

-----------------------------------------------------------------------------
(* Generic helpers on sequences and strings *)

Range(s) == {s[i] : i \in 1..Len(s)}

\* All sequences over S of length at most n
SeqsUpTo(S, n) == UNION {[1..k -> S] : k \in 0..n}

\* All sequences over S of length at most n without repeated elements
InjSeqsUpTo(S, n) ==
    {s \in SeqsUpTo(S, n) : \A i, j \in 1..Len(s) : s[i] = s[j] => i = j}

\* [x for x in s if Keep(x)], order preserved
SelectRows(s, Keep(_)) ==
    LET F[i \in 0..Len(s)] ==
            IF i = 0 THEN <<>>
            ELSE IF Keep(s[i]) THEN Append(F[i - 1], s[i]) ELSE F[i - 1]
    IN  F[Len(s)]

RECURSIVE SumSeq(_)
SumSeq(s) == IF s = <<>> THEN 0 ELSE Head(s) + SumSeq(Tail(s))

UpperChars == "ABCDEFGHIJKLMNOPQRSTUVWXYZ"
LowerChars == "abcdefghijklmnopqrstuvwxyz"

LowerChar(c) ==
    IF \E i \in 1..Len(UpperChars) : SubSeq(UpperChars, i, i) = c
    THEN LET i == CHOOSE k \in 1..Len(UpperChars) : SubSeq(UpperChars, k, k) = c
         IN  SubSeq(LowerChars, i, i)
    ELSE c

\* str.lower()
RECURSIVE StrLower(_)
StrLower(s) == IF Len(s) = 0 THEN "" ELSE LowerChar(Head(s)) \o StrLower(Tail(s))

\* c in s  (substring test)
StrContains(s, c) ==
    \E i \in 1..(Len(s) + 1) : i + Len(c) - 1 <= Len(s) /\ SubSeq(s, i, i + Len(c) - 1) = c

StrEndsWith(s, suffix) ==
    Len(s) >= Len(suffix) /\ SubSeq(s, Len(s) - Len(suffix) + 1, Len(s)) = suffix

\* str.strip(): removes leading and trailing blanks
RECURSIVE StrStrip(_)
StrStrip(s) ==
    IF Len(s) = 0 THEN s
    ELSE IF Head(s) = " " THEN StrStrip(Tail(s))
    ELSE IF SubSeq(s, Len(s), Len(s)) = " " THEN StrStrip(SubSeq(s, 1, Len(s) - 1))
    ELSE s

-----------------------------------------------------------------------------
(* File locator: dts_loader._find_first_csv *)

DATA_RAW == "data/raw"

MaxFiles == 3

FileNames ==
    {"DTS_Deposits_2024.csv", "opcash_category_map.csv", "dwoc_old.csv",
     "readme.csv", "notes.txt"}

DepositsCandidates == <<"deposits", "withdrawals", "operating cash", "dwoc", "opcash">>
MappingCandidates  == <<"category_map", "cat_map", "mapping", "rollup", "opcash_category_map">>

\* list(DATA_RAW.glob("*.csv")): the folder's entries named *.csv, in listing order
GlobCsv(files) == SelectRows(files, LAMBDA f : StrEndsWith(f, ".csv"))

Matches(c, f) == StrContains(StrLower(f), StrLower(c))

\* The first (candidate, file) pair of the nested loop that matches, if any
FirstMatchCandidate(csvs, candidates) ==
    CHOOSE i \in 1..Len(candidates) :
        /\ \E j \in 1..Len(csvs) : Matches(candidates[i], csvs[j])
        /\ \A k \in 1..(i - 1) : \A j \in 1..Len(csvs) : ~Matches(candidates[k], csvs[j])

FirstMatchFile(csvs, c) ==
    csvs[CHOOSE j \in 1..Len(csvs) :
            /\ Matches(c, csvs[j])
            /\ \A k \in 1..(j - 1) : ~Matches(c, csvs[k])]

\* The variant that loops over files first and candidates second
FindFirstCsvPerFile(folder, candidates) ==
    IF ~folder.exists
    THEN [kind |-> "FileNotFoundError", text |-> "Expected folder not found",
          mentions |-> {"folder"}, candidates |-> <<>>, names |-> <<>>]
    ELSE LET csvs == GlobCsv(folder.files) IN
         IF csvs = <<>>
         THEN [kind |-> "FileNotFoundError", text |-> "No CSV files found",
               mentions |-> {"folder"}, candidates |-> <<>>, names |-> <<>>]
         ELSE IF \E i \in 1..Len(candidates), j \in 1..Len(csvs) :
                     Matches(candidates[i], csvs[j])
         THEN [kind |-> "path",
               name |-> csvs[CHOOSE j \in 1..Len(csvs) :
                           /\ \E i \in 1..Len(candidates) : Matches(candidates[i], csvs[j])
                           /\ \A k \in 1..(j - 1) : \A i \in 1..Len(candidates) :
                                  ~Matches(candidates[i], csvs[k])]]
         ELSE [kind |-> "FileNotFoundError", text |-> "Could not auto-detect required CSV",
               mentions |-> {"candidates", "folder", "names"},
               candidates |-> candidates, names |-> csvs]

\* _find_first_csv(candidates) on the folder: a path, or the FileNotFoundError
\* raised, with the values its message interpolates
FindFirstCsv(folder, candidates) ==
    IF ~folder.exists
    THEN [kind |-> "FileNotFoundError", text |-> "Expected folder not found",
          mentions |-> {"folder"}, candidates |-> <<>>, names |-> <<>>]
    ELSE LET csvs == GlobCsv(folder.files) IN
         IF csvs = <<>>
         THEN [kind |-> "FileNotFoundError", text |-> "No CSV files found",
               mentions |-> {"folder"}, candidates |-> <<>>, names |-> <<>>]
         ELSE IF \E i \in 1..Len(candidates), j \in 1..Len(csvs) :
                     Matches(candidates[i], csvs[j])
         THEN [kind |-> "path",
               name |-> FirstMatchFile(csvs, candidates[FirstMatchCandidate(csvs, candidates)])]
         ELSE [kind |-> "FileNotFoundError", text |-> "Could not auto-detect required CSV",
               mentions |-> {"candidates", "folder", "names"},
               candidates |-> candidates, names |-> csvs]

Folders ==
    {[exists |-> FALSE, files |-> <<>>]} \cup
    {[exists |-> TRUE, files |-> fs] : fs \in InjSeqsUpTo(FileNames, MaxFiles)}

InitLocate ==
    /\ dataRaw \in Folders
    /\ found = None
    /\ TxIdle /\ MapIdle /\ CacheIdle /\ FlowsIdle /\ DrillIdle

find_deposits_withdrawals_csv ==
    /\ found' = [call |-> DepositsCandidates,
                 result |-> FindFirstCsv(dataRaw, DepositsCandidates)]
    /\ UNCHANGED <<dataRaw, txVars, mapVars, cacheVars, flowsVars, drillVars>>

find_category_map_csv ==
    /\ found' = [call |-> MappingCandidates,
                 result |-> FindFirstCsv(dataRaw, MappingCandidates)]
    /\ UNCHANGED <<dataRaw, txVars, mapVars, cacheVars, flowsVars, drillVars>>

NextLocate == find_deposits_withdrawals_csv \/ find_category_map_csv

SpecLocate == InitLocate /\ [][NextLocate]_vars

FoundCalled == found # None

\* Index of the earliest candidate of the call that some CSV of the folder matches (0: none)
EarliestMatching(csvs, candidates) ==
    IF \E i \in 1..Len(candidates), j \in 1..Len(csvs) : Matches(candidates[i], csvs[j])
    THEN CHOOSE i \in 1..Len(candidates) :
            /\ \E j \in 1..Len(csvs) : Matches(candidates[i], csvs[j])
            /\ \A k \in 1..(i - 1) : \A j \in 1..Len(csvs) : ~Matches(candidates[k], csvs[j])
    ELSE 0

NotFoundCase ==
    \/ ~dataRaw.exists
    \/ GlobCsv(dataRaw.files) = <<>>
    \/ EarliestMatching(GlobCsv(dataRaw.files), found.call) = 0

-----------------------------------------------------------------------------
(* Cell parsing: pd.to_datetime(errors="coerce"), pd.to_numeric(errors="coerce") *)

Digits == "0123456789"

IsDigit(c) == \E i \in 1..Len(Digits) : SubSeq(Digits, i, i) = c
DigitVal(c) == (CHOOSE i \in 1..Len(Digits) : SubSeq(Digits, i, i) = c) - 1

RECURSIVE AllDigits(_)
AllDigits(s) == IF Len(s) = 0 THEN TRUE ELSE IsDigit(Head(s)) /\ AllDigits(Tail(s))

\* Value of a non-empty digit string
RECURSIVE ParseNat(_)
ParseNat(s) ==
    IF Len(s) = 0 THEN 0
    ELSE 10 * ParseNat(SubSeq(s, 1, Len(s) - 1)) + DigitVal(SubSeq(s, Len(s), Len(s)))

\* Position of the first "." of s, 0 when there is none
DotPos(s) ==
    IF \E i \in 1..Len(s) : SubSeq(s, i, i) = "."
    THEN CHOOSE i \in 1..Len(s) :
            SubSeq(s, i, i) = "." /\ \A k \in 1..(i - 1) : SubSeq(s, k, k) # "."
    ELSE 0

\* Amounts are kept in fixed point, Scale units to 1 (the files carry at most
\* four decimals of a million)
ScaleDigits == 4
Scale == 10 ^ ScaleDigits

\* A cell pd.read_csv found empty (or holding one of its NA spellings): no text
\* read from a file can equal this marker, read_csv turns the text "<NA>" into it
NA == "<NA>"

NaN == [nan |-> TRUE, v |-> 0]
Num(v) == [nan |-> FALSE, v |-> v]

\* Unsigned decimal "ddd" or "ddd.ffff" to fixed point, NaN for anything else
ParseUnsigned(s) ==
    LET dot == DotPos(s) IN
    IF dot = 0
    THEN IF Len(s) > 0 /\ AllDigits(s) THEN Num(ParseNat(s) * Scale) ELSE NaN
    ELSE LET ip == SubSeq(s, 1, dot - 1)
             fp == SubSeq(s, dot + 1, Len(s))
         IN  IF /\ Len(ip) + Len(fp) > 0 /\ AllDigits(ip) /\ AllDigits(fp)
                /\ Len(fp) <= ScaleDigits
             THEN Num(ParseNat(ip) * Scale + ParseNat(fp) * 10 ^ (ScaleDigits - Len(fp)))
             ELSE NaN

\* pd.to_numeric(cell, errors="coerce") of one cell: a signed decimal, else NaN
ToNumeric(cell) ==
    LET s == StrStrip(cell) IN
    IF Len(s) > 0 /\ Head(s) = "-"
    THEN LET u == ParseUnsigned(Tail(s)) IN IF u.nan THEN NaN ELSE Num(0 - u.v)
    ELSE ParseUnsigned(s)

\* .fillna(0.0)
FillNa0(x) == IF x.nan THEN 0 ELSE x.v

NaT == [nat |-> TRUE, ymd |-> 0]

\* pd.to_datetime(cell, errors="coerce") of one cell: ISO YYYY-MM-DD, else NaT.
\* A date is kept as the number yyyymmdd, which orders dates as the calendar does.
ToDatetime(cell) ==
    IF /\ Len(cell) = 10
       /\ SubSeq(cell, 5, 5) = "-" /\ SubSeq(cell, 8, 8) = "-"
       /\ AllDigits(SubSeq(cell, 1, 4)) /\ AllDigits(SubSeq(cell, 6, 7))
       /\ AllDigits(SubSeq(cell, 9, 10))
       /\ ParseNat(SubSeq(cell, 6, 7)) \in 1..12
       /\ ParseNat(SubSeq(cell, 9, 10)) \in 1..28
    THEN [nat |-> FALSE,
          ymd |-> ParseNat(SubSeq(cell, 1, 4)) * 10000 + ParseNat(SubSeq(cell, 6, 7)) * 100
                  + ParseNat(SubSeq(cell, 9, 10))]
    ELSE NaT

-----------------------------------------------------------------------------
(* Transaction loader: dts_loader.load_deposits_withdrawals *)

MaxTxRows == 2

MILLION == 1000000

TxRequired ==
    {"record_date", "account_type", "transaction_type", "transaction_catg",
     "transaction_catg_desc", "transaction_today_amt"}

TgaTotalLabels ==
    {"Treasury General Account Total Deposits", "Treasury General Account Total Withdrawals"}

\* The labels the specification's data model names
SpecTgaTotalLabels == {"TGA Total Deposits", "TGA Total Withdrawals"}

TxHeaders ==
    {<<"record_date", "account_type", "transaction_type", "transaction_catg",
       "transaction_catg_desc", "transaction_today_amt">>,
     <<"record_date", "account_type", "transaction_type", "transaction_catg",
       "transaction_catg_desc", "transaction_today_amt", "table_nbr">>}

TxBadHeaders ==
    {<<"record_date", "account_type", "transaction_type", "transaction_catg",
       "transaction_catg_desc">>,
     <<"record_date", "account_type", "transaction_catg", "transaction_mtd_amt">>,
     <<" record_date", "account_type", "transaction_type", "transaction_catg",
       "transaction_catg_desc", "transaction_today_amt">>,
     <<>>}

RawTxRows ==
    [record_date : {"2024-01-05", "pending"},
     account_type : {"Federal Reserve Account", " Treasury General Account Total Deposits ",
                     "TGA Total Withdrawals"},
     transaction_type : {"Withdrawals "},
     transaction_catg : {" Interest on Treasury Securities"},
     transaction_catg_desc : {NA},
     transaction_today_amt : {"0", "0.0001", "12.5", "1,000"}]

TxFiles ==
    {[columns |-> h, rows |-> rs] : h \in TxHeaders, rs \in SeqsUpTo(RawTxRows, MaxTxRows)}
    \cup {[columns |-> h, rows |-> <<>>] : h \in TxBadHeaders}

\* Conversion that takes whole millions only
ToDollarsWholeMillions(v) == (v \div Scale) * MILLION

\* df["transaction_today_amt"] * 1_000_000, on the fixed-point value (Scale
\* divides MILLION, so the product is formed without leaving 32-bit integers)
ToDollars(v) == v * (MILLION \div Scale)

\* One row after the column-wise conversions of lines 101-110
ConvertTxRow(r) ==
    [record_date |-> ToDatetime(r.record_date).ymd,
     account_type |-> StrStrip(r.account_type),
     transaction_type |-> StrStrip(r.transaction_type),
     transaction_catg |-> StrStrip(r.transaction_catg),
     transaction_catg_desc |-> StrStrip(r.transaction_catg_desc),
     transaction_today_amt |-> ToDollars(FillNa0(ToNumeric(r.transaction_today_amt)))]

\* The raise of lines 97-99: the message interpolates sorted(missing) only
TxSchemaError(missing, columns) ==
    [kind |-> "ValueError", text |-> "Deposits/Withdrawals CSV missing columns",
     mentions |-> {"missing"}, missing |-> missing, present |-> <<>>]

\* The exclusion of lines 113-116 that compares the untrimmed cell
TxExcludedUntrimmed(raw, row) == raw.account_type \in TgaTotalLabels

\* The exclusion of lines 113-116 (on the trimmed account_type)
TxExcluded(raw, row) == row.account_type \in TgaTotalLabels

\* load_deposits_withdrawals(path) on the file as read by pd.read_csv
LoadDepositsWithdrawals(file) ==
    LET missing == TxRequired \ Range(file.columns) IN
    IF missing # {}
    THEN TxSchemaError(missing, file.columns)
    ELSE LET dated == SelectRows(file.rows, LAMBDA r : ~ToDatetime(r.record_date).nat)
             kept  == SelectRows(dated, LAMBDA r : ~TxExcluded(r, ConvertTxRow(r)))
             conv  == [i \in 1..Len(kept) |-> ConvertTxRow(kept[i])]
         IN  [kind |-> "table",
              rows |-> SelectRows(conv, LAMBDA r : r.transaction_today_amt # 0)]

InitTx ==
    /\ txFile \in TxFiles
    /\ txOut = None
    /\ LocIdle /\ MapIdle /\ CacheIdle /\ FlowsIdle /\ DrillIdle

load_deposits_withdrawals ==
    /\ txOut' = LoadDepositsWithdrawals(txFile)
    /\ UNCHANGED <<txFile, locVars, mapVars, cacheVars, flowsVars, drillVars>>

\* The CSV is replaced by one with another row appended (a new day's download)
AppendTxRow ==
    /\ txFile.columns \in TxHeaders
    /\ Len(txFile.rows) < MaxTxRows
    /\ \E r \in RawTxRows : txFile' = [txFile EXCEPT !.rows = Append(@, r)]
    /\ txOut' = None
    /\ UNCHANGED <<locVars, mapVars, cacheVars, flowsVars, drillVars>>

NextTx == load_deposits_withdrawals \/ AppendTxRow

SpecTx == InitTx /\ [][NextTx]_vars

TxLoaded == txOut # None /\ txOut.kind = "table"

\* C2 (as stated): no returned row is labelled "TGA Total Deposits" or
\* "TGA Total Withdrawals".
C2_AsStated ==
    TxLoaded =>
        \A i \in 1..Len(txOut.rows) :
            StrStrip(txOut.rows[i].account_type) \notin SpecTgaTotalLabels

\* C2 (amended): no returned row has account_type (after trimming) equal to
\* "Treasury General Account Total Deposits" or "Treasury General Account Total
\* Withdrawals", whatever its amount; every other label, "TGA Total Deposits"
\* and "TGA Total Withdrawals" included, is not filtered by account_type.
C2_TgaTotalsExcluded ==
    TxLoaded =>
        /\ \A i \in 1..Len(txOut.rows) :
              StrStrip(txOut.rows[i].account_type) \notin
                  {"Treasury General Account Total Deposits",
                   "Treasury General Account Total Withdrawals"}
        /\ \A i \in 1..Len(txFile.rows) :
              LET r == txFile.rows[i] IN
              (/\ StrStrip(r.account_type) \in SpecTgaTotalLabels
               /\ ~ToDatetime(r.record_date).nat
               /\ FillNa0(ToNumeric(r.transaction_today_amt)) # 0)
              => \E j \in 1..Len(txOut.rows) :
                    txOut.rows[j].account_type = StrStrip(r.account_type)

\* A padded TGA-total row with a non-zero amount and a good date was read and
\* the loader returned a table.
C2_Witness ==
    /\ TxLoaded
    /\ \E i \in 1..Len(txFile.rows) :
          /\ txFile.rows[i].account_type = " Treasury General Account Total Deposits "
          /\ txFile.rows[i].transaction_today_amt = "12.5"
          /\ txFile.rows[i].record_date = "2024-01-05"
    /\ Len(txOut.rows) >= 1

\* The rows of the file that the claim says are retained, in file order
ExpectedRetained ==
    SelectRows(txFile.rows,
        LAMBDA r : /\ ~ToDatetime(r.record_date).nat
                   /\ StrStrip(r.account_type) \notin TgaTotalLabels
                   /\ ~ToNumeric(r.transaction_today_amt).nan
                   /\ ToNumeric(r.transaction_today_amt).v # 0)

\* C9: no returned row has amount 0; the returned rows are exactly the rows with
\* a parsable date, a non-sentinel account_type and a non-zero numeric raw
\* amount, in file order, each with its raw amount times 1,000,000 (0.0001
\* million gives 100).
C9_ZeroDroppedSmallKept ==
    TxLoaded =>
        /\ \A i \in 1..Len(txOut.rows) : txOut.rows[i].transaction_today_amt # 0
        /\ Len(txOut.rows) = Len(ExpectedRetained)
        /\ \A i \in 1..Len(ExpectedRetained) :
              /\ txOut.rows[i].transaction_today_amt
                     = ToNumeric(ExpectedRetained[i].transaction_today_amt).v
                           * (1000000 \div Scale)
              /\ txOut.rows[i].account_type = StrStrip(ExpectedRetained[i].account_type)
        /\ \A i \in 1..Len(ExpectedRetained) :
              ExpectedRetained[i].transaction_today_amt = "0.0001"
                  => txOut.rows[i].transaction_today_amt = 100

\* A file with a 0 row, a non-numeric row and a 0.0001 row was loaded: only the
\* 0.0001 row came back.
C9_Witness ==
    /\ TxLoaded
    /\ \E i, j \in 1..Len(txFile.rows) :
          /\ txFile.rows[i].transaction_today_amt = "0.0001"
          /\ txFile.rows[i].record_date = "2024-01-05"
          /\ txFile.rows[i].account_type = "Federal Reserve Account"
          /\ txFile.rows[j].transaction_today_amt \in {"0", "1,000"}
          /\ txFile.rows[j].record_date = "2024-01-05"
    /\ Len(txOut.rows) = 1
    /\ txOut.rows[1].transaction_today_amt = 100

\* C8 (as stated, transaction loader): a schema error is raised exactly when a
\* required column is missing, names exactly the missing columns and lists all
\* columns actually present.
C8_AsStated ==
    txOut # None =>
        /\ txOut.kind = "ValueError" <=> TxRequired \ Range(txFile.columns) # {}
        /\ txOut.kind = "ValueError" =>
              /\ "missing" \in txOut.mentions
              /\ txOut.missing = TxRequired \ Range(txFile.columns)
              /\ "present" \in txOut.mentions
              /\ txOut.present = txFile.columns

-----------------------------------------------------------------------------
(* Mapping loader and enrichment: dts_loader.load_category_map, enrich_with_rollups *)

MaxMapRows == 2
MaxDfRows == 2

MapRequired ==
    {"transaction_catg", "transaction_catg_desc", "cabinet_supercategory",
     "agency_rollup", "program_rollup"}

MapHeaders ==
    {<<"transaction_catg", "transaction_catg_desc", "cabinet_supercategory",
       "agency_rollup", "program_rollup">>,
     <<"transaction_type", " transaction_catg", "transaction_cetg_desc",
       "cabinet_supercategory ", "agency_rollup", "program_rollup">>}

MapBadHeaders ==
    {<<"transaction_catg", "transaction_catg_desc", "cabinet_supercategory", "agency_rollup">>,
     <<"transaction_catg", "transaction_cetg_desc", "transaction_catg_desc ", "notes">>,
     <<"category", "cabinet">>}

RawMapRows ==
    [transaction_catg : {"Taxes", " Taxes ", "Interest"},
     transaction_catg_desc : {"x"},
     cabinet_supercategory : {"Treasury", "Defense "},
     agency_rollup : {" IRS"},
     program_rollup : {"Refunds"}]
    \cup
    [transaction_catg : {"Taxes", " Taxes ", "Interest"},
     transaction_catg_desc : {"x"},
     cabinet_supercategory : {"Treasury"},
     agency_rollup : {"Fiscal Service"},
     program_rollup : {" Debt "}]
    \cup
    {[transaction_catg |-> "Interest", transaction_catg_desc |-> NA,
      cabinet_supercategory |-> NA, agency_rollup |-> "Fiscal Service",
      program_rollup |-> "Debt"]}

MapFiles ==
    {[columns |-> h, rows |-> rs] : h \in MapHeaders, rs \in SeqsUpTo(RawMapRows, MaxMapRows)}
    \cup {[columns |-> h, rows |-> <<>>] : h \in MapBadHeaders}

\* Loaded transaction rows handed to the enrichment (already trimmed and converted)
LoadedTxRows ==
    {[record_date |-> 20240105, account_type |-> "Federal Reserve Account",
      transaction_type |-> "Deposits", transaction_catg |-> k[1],
      transaction_catg_desc |-> k[2], transaction_today_amt |-> 2000000] :
        k \in {<<"Taxes", "x">>, <<"Interest", NA>>, <<"Customs", "x">>}}

\* lines 52-54: column names trimmed, then the legacy misspelling renamed when
\* the canonical name is absent
MapColumns(columns) ==
    LET trimmed == [i \in 1..Len(columns) |-> StrStrip(columns[i])] IN
    IF "transaction_cetg_desc" \in Range(trimmed) /\ "transaction_catg_desc" \notin Range(trimmed)
    THEN [i \in 1..Len(trimmed) |->
            IF trimmed[i] = "transaction_cetg_desc" THEN "transaction_catg_desc" ELSE trimmed[i]]
    ELSE trimmed

\* The raise of lines 63-65: the message interpolates sorted(missing) and list(m.columns)
MapSchemaError(missing, columns) ==
    [kind |-> "ValueError", text |-> "Mapping file missing columns",
     mentions |-> {"missing", "present"}, missing |-> missing, present |-> columns]

\* lines 67-73: the five columns trimmed
NormalizeMapRow(r) ==
    [transaction_catg |-> StrStrip(r.transaction_catg),
     transaction_catg_desc |-> StrStrip(r.transaction_catg_desc),
     cabinet_supercategory |-> StrStrip(r.cabinet_supercategory),
     agency_rollup |-> StrStrip(r.agency_rollup),
     program_rollup |-> StrStrip(r.program_rollup)]

JoinKey(r) == <<r.transaction_catg, r.transaction_catg_desc>>

\* drop_duplicates(subset=join key, keep="last")
DropDuplicatesKeepLast(rows) ==
    SelectRows([i \in 1..Len(rows) |-> [i |-> i, r |-> rows[i]]],
               LAMBDA x : \A k \in (x.i + 1)..Len(rows) : JoinKey(rows[k]) # JoinKey(x.r))

\* drop_duplicates(subset=join key, keep="first"), as (index, row) pairs
DropDuplicates(rows) ==
    SelectRows([i \in 1..Len(rows) |-> [i |-> i, r |-> rows[i]]],
               LAMBDA x : \A k \in 1..(x.i - 1) : JoinKey(rows[k]) # JoinKey(x.r))

\* load_category_map(path) on the file as read by pd.read_csv(dtype=str)
LoadCategoryMap(file) ==
    LET columns == MapColumns(file.columns)
        missing == MapRequired \ Range(columns)
    IN  IF missing # {}
        THEN MapSchemaError(missing, columns)
        ELSE LET norm == [i \in 1..Len(file.rows) |-> NormalizeMapRow(file.rows[i])]
                 kept == DropDuplicates(norm)
             IN  [kind |-> "table", rows |-> [j \in 1..Len(kept) |-> kept[j].r]]

Unmapped == "Unmapped"

\* .fillna("Unmapped")
FillUnmapped(v) == IF v = NA THEN Unmapped ELSE v

\* mapping rows whose join key equals the row's, in mapping order
MatchesOf(row, mapping) == SelectRows(mapping, LAMBDA mr : JoinKey(mr) = JoinKey(row))

EnrichedRow(row, cab, agency, program) ==
    [record_date |-> row.record_date, account_type |-> row.account_type,
     transaction_type |-> row.transaction_type, transaction_catg |-> row.transaction_catg,
     transaction_catg_desc |-> row.transaction_catg_desc,
     transaction_today_amt |-> row.transaction_today_amt,
     cabinet_supercategory |-> FillUnmapped(cab),
     agency_rollup |-> FillUnmapped(agency),
     program_rollup |-> FillUnmapped(program)]

\* The output rows of one transaction row under a left join
LeftJoinRow(row, mapping) ==
    LET ms == MatchesOf(row, mapping) IN
    IF ms = <<>>
    THEN <<EnrichedRow(row, NA, NA, NA)>>
    ELSE [j \in 1..Len(ms) |->
            EnrichedRow(row, ms[j].cabinet_supercategory, ms[j].agency_rollup,
                        ms[j].program_rollup)]

\* The output rows of one transaction row under an inner join
InnerJoinRow(row, mapping) ==
    LET ms == MatchesOf(row, mapping) IN
    [j \in 1..Len(ms) |->
        EnrichedRow(row, ms[j].cabinet_supercategory, ms[j].agency_rollup,
                    ms[j].program_rollup)]

\* df.merge(mapping, on=join key, how="inner") and the three fillna
RECURSIVE EnrichInner(_, _)
EnrichInner(rows, mapping) ==
    IF rows = <<>> THEN <<>>
    ELSE InnerJoinRow(Head(rows), mapping) \o EnrichInner(Tail(rows), mapping)

\* enrich_with_rollups(df, mapping): df.merge(mapping, on=join key, how="left")
\* and the three fillna("Unmapped")
RECURSIVE EnrichLeft(_, _)
EnrichLeft(rows, mapping) ==
    IF rows = <<>> THEN <<>>
    ELSE LeftJoinRow(Head(rows), mapping) \o EnrichLeft(Tail(rows), mapping)

EnrichWithRollups(rows, mapping) == EnrichLeft(rows, mapping)

InitMap ==
    /\ mapFile \in MapFiles
    /\ df \in SeqsUpTo(LoadedTxRows, MaxDfRows)
    /\ mapOut = None
    /\ enriched = None
    /\ LocIdle /\ TxIdle /\ CacheIdle /\ FlowsIdle /\ DrillIdle

load_category_map ==
    /\ mapOut' = LoadCategoryMap(mapFile)
    /\ UNCHANGED <<mapFile, df, enriched, locVars, txVars, cacheVars, flowsVars, drillVars>>

\* enrich_with_rollups(df, load_category_map())
enrich_loaded ==
    /\ mapOut # None /\ mapOut.kind = "table"
    /\ enriched' = [via |-> "load_category_map", mapping |-> mapOut.rows,
                    rows |-> EnrichWithRollups(df, mapOut.rows)]
    /\ UNCHANGED <<mapFile, df, mapOut, locVars, txVars, cacheVars, flowsVars, drillVars>>

\* enrich_with_rollups(df, mapping) with a mapping table built by the caller:
\* any table holding the five columns, here the file's rows as read
enrich_direct ==
    /\ MapRequired \subseteq Range(mapFile.columns)
    /\ enriched' = [via |-> "direct", mapping |-> mapFile.rows,
                    rows |-> EnrichWithRollups(df, mapFile.rows)]
    /\ UNCHANGED <<mapFile, df, mapOut, locVars, txVars, cacheVars, flowsVars, drillVars>>

NextMap == load_category_map \/ enrich_loaded \/ enrich_direct

SpecMap == InitMap /\ [][NextMap]_vars

KeyUnique(mapping) ==
    \A i, j \in 1..Len(mapping) : JoinKey(mapping[i]) = JoinKey(mapping[j]) => i = j

\* C1 (as stated): for every mapping, also one passed directly, the enrichment
\* returns exactly as many rows as df has.
C1_AsStated == enriched # None => Len(enriched.rows) = Len(df)

\* C1 (amended): for every mapping whose join key is unique (every table
\* load_category_map returns, and the empty mapping) the enrichment returns
\* exactly as many rows as df has, row i of the result being row i of df; and
\* every table load_category_map returns has a unique join key.
C1_RowCountPreserved ==
    /\ enriched # None /\ KeyUnique(enriched.mapping) =>
          /\ Len(enriched.rows) = Len(df)
          /\ \A i \in 1..Len(df) :
                /\ JoinKey(enriched.rows[i]) = JoinKey(df[i])
                /\ enriched.rows[i].transaction_today_amt = df[i].transaction_today_amt
    /\ enriched # None /\ enriched.via = "load_category_map" => KeyUnique(enriched.mapping)

\* Two transaction rows, one matched and one unmatched, were enriched with a
\* loaded mapping from which load_category_map had dropped a duplicate key.
C1_Witness ==
    /\ enriched # None /\ enriched.via = "load_category_map"
    /\ Len(df) = 2 /\ Len(enriched.mapping) >= 1
    /\ Len(mapFile.rows) > Len(enriched.mapping)
    /\ \E i, j \in 1..2 :
          /\ enriched.rows[i].cabinet_supercategory = Unmapped
          /\ enriched.rows[j].cabinet_supercategory # Unmapped

\* C8 (mapping loader side, which holds): load_category_map raises its schema
\* error exactly when a required column is missing after the header is trimmed
\* and the legacy name renamed, naming the missing columns and listing the
\* columns present.
MapSchemaErrorNamesBoth ==
    mapOut # None =>
        /\ mapOut.kind = "ValueError" <=> MapRequired \ Range(MapColumns(mapFile.columns)) # {}
        /\ mapOut.kind = "ValueError" =>
              /\ mapOut.mentions = {"missing", "present"}
              /\ mapOut.missing = MapRequired \ Range(MapColumns(mapFile.columns))
              /\ mapOut.present = MapColumns(mapFile.columns)

\* Index of the first file row whose trimmed join key is that of file row i
FirstWithKey(rows, i) ==
    CHOOSE f \in 1..i :
        /\ JoinKey(NormalizeMapRow(rows[f])) = JoinKey(NormalizeMapRow(rows[i]))
        /\ \A k \in 1..(f - 1) :
              JoinKey(NormalizeMapRow(rows[k])) # JoinKey(NormalizeMapRow(rows[i]))

\* C6: the loaded mapping has a unique join key and holds, for every key of the
\* file (compared after trimming), the trimmed rollups of the first file row
\* with that key; a transaction with that key is enriched with them (a blank
\* rollup reads "Unmapped"), whatever later rows with the key say.
C6_FirstMappingRowWins ==
    /\ mapOut # None /\ mapOut.kind = "table" =>
          /\ KeyUnique(mapOut.rows)
          /\ \A i \in 1..Len(mapFile.rows) :
                LET first == NormalizeMapRow(mapFile.rows[FirstWithKey(mapFile.rows, i)]) IN
                \E j \in 1..Len(mapOut.rows) : mapOut.rows[j] = first
          /\ \A j \in 1..Len(mapOut.rows) :
                \E i \in 1..Len(mapFile.rows) :
                    mapOut.rows[j] = NormalizeMapRow(mapFile.rows[i])
    /\ enriched # None /\ enriched.via = "load_category_map" =>
          \A t \in 1..Len(enriched.rows) : \A i \in 1..Len(mapFile.rows) :
              JoinKey(NormalizeMapRow(mapFile.rows[i])) = JoinKey(enriched.rows[t]) =>
                  LET first == NormalizeMapRow(mapFile.rows[FirstWithKey(mapFile.rows, i)]) IN
                  /\ enriched.rows[t].cabinet_supercategory
                         = (IF first.cabinet_supercategory = NA THEN "Unmapped"
                            ELSE first.cabinet_supercategory)
                  /\ enriched.rows[t].agency_rollup
                         = (IF first.agency_rollup = NA THEN "Unmapped" ELSE first.agency_rollup)
                  /\ enriched.rows[t].program_rollup
                         = (IF first.program_rollup = NA THEN "Unmapped"
                            ELSE first.program_rollup)

\* The file holds "Taxes" twice (once padded) with conflicting cabinets, and a
\* transaction with that key was enriched with the first row's cabinet.
C6_Witness ==
    /\ enriched # None /\ enriched.via = "load_category_map"
    /\ Len(mapFile.rows) = 2
    /\ StrStrip(mapFile.rows[1].transaction_catg) = StrStrip(mapFile.rows[2].transaction_catg)
    /\ mapFile.rows[1].transaction_catg # mapFile.rows[2].transaction_catg
    /\ StrStrip(mapFile.rows[1].cabinet_supercategory)
           # StrStrip(mapFile.rows[2].cabinet_supercategory)
    /\ \E t \in 1..Len(enriched.rows) :
          /\ enriched.rows[t].transaction_catg = StrStrip(mapFile.rows[1].transaction_catg)
          /\ enriched.rows[t].cabinet_supercategory
                 = StrStrip(mapFile.rows[1].cabinet_supercategory)

-----------------------------------------------------------------------------
(* The cached enriched table: get_enriched of 1_Flows.py and 2_Drilldown.py *)

Pages == {"Flows", "Drilldown"}

TxFileName == "deposits_withdrawals.csv"
MapFileName == "category_map.csv"

GoodTxHeader ==
    <<"record_date", "account_type", "transaction_type", "transaction_catg",
      "transaction_catg_desc", "transaction_today_amt">>

GoodMapHeader ==
    <<"transaction_catg", "transaction_catg_desc", "cabinet_supercategory",
      "agency_rollup", "program_rollup">>

TxRowOn(date, amt) ==
    [record_date |-> date, account_type |-> "Federal Reserve Account",
     transaction_type |-> "Deposits", transaction_catg |-> "Taxes",
     transaction_catg_desc |-> "x", transaction_today_amt |-> amt]

MapRowTo(cab) ==
    [transaction_catg |-> "Taxes", transaction_catg_desc |-> "x",
     cabinet_supercategory |-> cab, agency_rollup |-> "IRS", program_rollup |-> "Refunds"]

\* Contents the transactions file can have: each day's download appends a row;
\* a broken download lacks a column
TxVersions ==
    {[columns |-> GoodTxHeader, rows |-> <<TxRowOn("2024-01-05", "2")>>],
     [columns |-> GoodTxHeader,
      rows |-> <<TxRowOn("2024-01-05", "2"), TxRowOn("2024-01-06", "0.5")>>],
     [columns |-> <<"record_date", "account_type">>, rows |-> <<>>]}

\* Contents the mapping file can have: the maintainer rewrites a rollup
MapVersions ==
    {[columns |-> GoodMapHeader, rows |-> <<>>],
     [columns |-> GoodMapHeader, rows |-> <<MapRowTo("Treasury")>>],
     [columns |-> GoodMapHeader, rows |-> <<MapRowTo("Treasury Department")>>]}

\* The body of get_enriched (lines 23-26 of 1_Flows.py, 21-24 of 2_Drilldown.py):
\* locate and load both files, then enrich; an exception of a step propagates
ComputeEnriched(folder, contents) ==
    LET txPath == FindFirstCsv(folder, DepositsCandidates) IN
    IF txPath.kind # "path" THEN txPath
    ELSE LET tx == LoadDepositsWithdrawals(contents[txPath.name]) IN
         IF tx.kind # "table" THEN tx
         ELSE LET mapPath == FindFirstCsv(folder, MappingCandidates) IN
              IF mapPath.kind # "path" THEN mapPath
              ELSE LET mapping == LoadCategoryMap(contents[mapPath.name]) IN
                   IF mapping.kind # "table" THEN mapping
                   ELSE [kind |-> "table",
                         rows |-> EnrichWithRollups(tx.rows, mapping.rows)]

\* @st.cache_data on a function without parameters: one entry per decorated
\* function, filled by the first call that returns, never keyed by the files;
\* an exception is not cached
CachedCall(entry, folder, contents) ==
    IF entry # None THEN entry ELSE ComputeEnriched(folder, contents)

CacheAfter(entry, result) ==
    IF entry # None THEN entry
    ELSE IF result.kind = "table" THEN result ELSE None

InitCache ==
    /\ dataRaw = [exists |-> TRUE, files |-> <<MapFileName, TxFileName>>]
    /\ found = None
    /\ disk \in {[f \in {TxFileName, MapFileName} |->
                    IF f = TxFileName THEN t ELSE m] : t \in TxVersions, m \in MapVersions}
    /\ cache = [p \in Pages |-> None]
    /\ served = [p \in Pages |-> None]
    /\ TxIdle /\ MapIdle /\ FlowsIdle /\ DrillIdle

\* A page run reaches df = get_enriched()
GetEnriched(page) ==
    LET result == CachedCall(cache[page], dataRaw, disk) IN
    /\ cache' = [cache EXCEPT ![page] = CacheAfter(@, result)]
    /\ served' = [served EXCEPT ![page] = [value |-> result, read |-> disk]]
    /\ UNCHANGED <<disk, locVars, txVars, mapVars, flowsVars, drillVars>>

flows_get_enriched == GetEnriched("Flows")

drilldown_get_enriched == GetEnriched("Drilldown")

\* The transactions file is replaced by other contents
WriteTxFile ==
    /\ \E t \in TxVersions \ {disk[TxFileName]} : disk' = [disk EXCEPT ![TxFileName] = t]
    /\ UNCHANGED <<cache, served, locVars, txVars, mapVars, flowsVars, drillVars>>

\* The mapping file is replaced by other contents
WriteMapFile ==
    /\ \E m \in MapVersions \ {disk[MapFileName]} : disk' = [disk EXCEPT ![MapFileName] = m]
    /\ UNCHANGED <<cache, served, locVars, txVars, mapVars, flowsVars, drillVars>>

NextCache == flows_get_enriched \/ drilldown_get_enriched \/ WriteTxFile \/ WriteMapFile

SpecCache == InitCache /\ [][NextCache]_vars

\* C3 (as stated): whatever get_enriched() returned to a page is the enrichment
\* computed from the contents the two files had when it was called.
C3_AsStated ==
    \A p \in Pages :
        served[p] # None => served[p].value = ComputeEnriched(dataRaw, served[p].read)

-----------------------------------------------------------------------------
(* Ordering of labels: groupby sorts its keys, sorted() sorts the cabinets *)

AsciiOrder == " ()-.0123456789:ABCDEFGHIJKLMNOPQRSTUVWXYZ_abcdefghijklmnopqrstuvwxyz"

AsciiChars == {SubSeq(AsciiOrder, i, i) : i \in 1..Len(AsciiOrder)}

AsciiRank ==
    [c \in AsciiChars |-> CHOOSE i \in 1..Len(AsciiOrder) : SubSeq(AsciiOrder, i, i) = c]

CharRank(c) == IF c \in AsciiChars THEN AsciiRank[c] ELSE Len(AsciiOrder) + 1

\* a < b as Python compares str
RECURSIVE StrLess(_, _)
StrLess(a, b) ==
    IF Len(b) = 0 THEN FALSE
    ELSE IF Len(a) = 0 THEN TRUE
    ELSE IF Head(a) = Head(b) THEN StrLess(Tail(a), Tail(b))
    ELSE CharRank(Head(a)) < CharRank(Head(b))

\* The strings of S in ascending order
RECURSIVE SortedStrings(_)
SortedStrings(S) ==
    IF S = {} THEN <<>>
    ELSE LET least == CHOOSE x \in S : \A y \in S \ {x} : StrLess(x, y)
         IN  <<least>> \o SortedStrings(S \ {least})

Amounts(rows) == [i \in 1..Len(rows) |-> rows[i].transaction_today_amt]

-----------------------------------------------------------------------------
(* Flows page: 1_Flows.py, from the controls to the Sankey handed to plotly *)

MaxFlowRows == 3

\* Rows of the enriched table, with the columns the page reads
FlowRow(date, type, cab, amt) ==
    [record_date |-> date, transaction_type |-> type,
     cabinet_supercategory |-> cab, transaction_today_amt |-> amt]

FlowRows ==
    {FlowRow(20240105, "Deposits", "Treasury", 2000000),
     FlowRow(20240107, "Deposits", "Treasury", 500000),
     FlowRow(20240105, "Withdrawals", "Defense", 1500000),
     FlowRow(20240107, "Withdrawals", "Unmapped", 100),
     FlowRow(20250102, "Deposits", "Unmapped", 300),
     FlowRow(20240105, "Withdrawals", "Treasury", 700)}

\* Calendar days the date widget can return
Days == {20240105, 20240106, 20240107, 20250102}

MinOf(S) == CHOOSE x \in S : \A y \in S : x <= y
MaxOf(S) == CHOOSE x \in S : \A y \in S : x >= y

YearOf(ymd) == ymd \div 10000

\* lines 57-61: the year shortcut replaces the range by the whole year
EffectiveRange(ctl) ==
    IF ctl.year_choice # 0
    THEN <<ctl.year_choice * 10000 + 101, ctl.year_choice * 10000 + 1231>>
    ELSE ctl.date_range

\* lines 63-67: date mask, then the unmapped filter
PageFilter(table, ctl) ==
    LET range == EffectiveRange(ctl)
        inRange == SelectRows(table,
                       LAMBDA r : r.record_date >= range[1] /\ r.record_date <= range[2])
    IN  IF ~ctl.show_unmapped
        THEN SelectRows(inRange, LAMBDA r : r.cabinet_supercategory # Unmapped)
        ELSE inRange

OfType(rows, type) == SelectRows(rows, LAMBDA r : r.transaction_type = type)

OfCabinet(rows, cab) == SelectRows(rows, LAMBDA r : r.cabinet_supercategory = cab)

\* rows[type].groupby("cabinet_supercategory", as_index=False)[amt].sum():
\* one row per cabinet present, cabinets ascending
SumByCabinet(rows, type) ==
    LET sel == OfType(rows, type)
        cabs == SortedStrings({sel[i].cabinet_supercategory : i \in 1..Len(sel)})
    IN  [k \in 1..Len(cabs) |->
            [cabinet_supercategory |-> cabs[k],
             transaction_today_amt |-> SumSeq(Amounts(OfCabinet(sel, cabs[k])))]]

tga_node == "Treasury General Account (TGA)"

\* A node list that puts the sink first
NodeListSinkFirst(depNodes, wdrNodes) == <<tga_node>> \o depNodes \o wdrNodes

\* line 124
NodeList(depNodes, wdrNodes) == depNodes \o <<tga_node>> \o wdrNodes

\* line 125: {label: i for i, label in enumerate(nodes)}[label], the last
\* position holding the label, counted from 0
NodeIndex(nodes, label) ==
    (CHOOSE i \in 1..Len(nodes) :
        nodes[i] = label /\ \A k \in (i + 1)..Len(nodes) : nodes[k] # label) - 1

\* lines 107-135
BuildSankey(dff) ==
    LET dep_by_cab == SumByCabinet(dff, "Deposits")
        wdr_by_cab == SumByCabinet(dff, "Withdrawals")
        depNodes == [k \in 1..Len(dep_by_cab) |->
                        "Deposits: " \o dep_by_cab[k].cabinet_supercategory]
        wdrNodes == [k \in 1..Len(wdr_by_cab) |->
                        "Withdrawals: " \o wdr_by_cab[k].cabinet_supercategory]
        nodes == NodeList(depNodes, wdrNodes)
    IN  [kind |-> "sankey",
         nodes |-> nodes,
         sources |-> [k \in 1..Len(depNodes) |-> NodeIndex(nodes, depNodes[k])]
                     \o [k \in 1..Len(wdrNodes) |-> NodeIndex(nodes, tga_node)],
         targets |-> [k \in 1..Len(depNodes) |-> NodeIndex(nodes, tga_node)]
                     \o [k \in 1..Len(wdrNodes) |-> NodeIndex(nodes, wdrNodes[k])],
         values |-> Amounts(dep_by_cab) \o Amounts(wdr_by_cab)]

CabinetsOf(rows) == {rows[i].cabinet_supercategory : i \in 1..Len(rows)}

\* lines 83-98: deposits, withdrawals (0.0 where a side is missing) and net per
\* cabinet; the row order of the table is not modelled
NetTable(dff) ==
    LET cabs == CabinetsOf(OfType(dff, "Deposits")) \cup CabinetsOf(OfType(dff, "Withdrawals"))
    IN  [c \in cabs |->
            LET d == SumSeq(Amounts(OfCabinet(OfType(dff, "Deposits"), c)))
                w == SumSeq(Amounts(OfCabinet(OfType(dff, "Withdrawals"), c)))
            IN  [deposits |-> d, withdrawals |-> w, net |-> d - w]]

\* What one run of the page hands to the renderer
FlowsPage(table, ctl) ==
    LET dff == PageFilter(table, ctl) IN
    IF ctl.view_choice = "Net by cabinet (table)"
    THEN [kind |-> "net_table", table |-> NetTable(dff)]
    ELSE BuildSankey(dff)

NoSelection == ""

\* lines 166-199: a click on a row of the cabinet table stores its cabinet
FlowsSession(table, ctl, old) ==
    IF ctl.view_choice # "Net by cabinet (table)" /\ ctl.selected_row # NoSelection
    THEN [selected_cabinet |-> ctl.selected_row]
    ELSE old

DatesOf(table) == {table[i].record_date : i \in 1..Len(table)}

\* Values the widgets of lines 36-54 and the table of line 185 can hold for the table
FlowsControls(table) ==
    {c \in [date_range : Days \X Days,
            year_choice : {0} \cup {YearOf(d) : d \in DatesOf(table)},
            view_choice : {"Gross flows (Sankey)", "Net by cabinet (table)"},
            show_unmapped : BOOLEAN,
            selected_row : {NoSelection} \cup CabinetsOf(table)] :
        /\ MinOf(DatesOf(table)) <= c.date_range[1]
        /\ c.date_range[1] <= c.date_range[2]
        /\ c.date_range[2] <= MaxOf(DatesOf(table))
        /\ c.year_choice # 0 =>
              c.date_range = <<MinOf(DatesOf(table)), MaxOf(DatesOf(table))>>
        /\ c.selected_row # NoSelection =>
              /\ c.view_choice = "Gross flows (Sankey)"
              /\ c.selected_row \in CabinetsOf(PageFilter(table, c))}

InitFlows ==
    /\ flowsDf \in SeqsUpTo(FlowRows, MaxFlowRows) \ {<<>>}
    /\ flowsCtl = None
    /\ flowsOut = None
    /\ session \in [selected_cabinet : {NoSelection} \cup CabinetsOf(flowsDf)]
    /\ LocIdle /\ TxIdle /\ MapIdle /\ CacheIdle /\ DrillIdle

\* One script run of the page with the widgets at some values; the session
\* state it starts from is any an earlier run can have left
FlowsPageRun ==
    /\ flowsCtl = None
    /\ \E ctl \in FlowsControls(flowsDf) :
          /\ flowsCtl' = ctl
          /\ flowsOut' = FlowsPage(flowsDf, ctl)
          /\ session' = FlowsSession(flowsDf, ctl, session)
    /\ UNCHANGED <<flowsDf, locVars, txVars, mapVars, cacheVars, drillVars>>

NextFlows == FlowsPageRun

SpecFlows == InitFlows /\ [][NextFlows]_vars

FlowsDff == PageFilter(flowsDf, flowsCtl)

DepCabinets == CabinetsOf(OfType(FlowsDff, "Deposits"))
WdrCabinets == CabinetsOf(OfType(FlowsDff, "Withdrawals"))

\* Sum of the amounts of the filtered rows of a type and cabinet
RECURSIVE FlowSum(_, _, _)
FlowSum(rows, type, cab) ==
    IF rows = <<>> THEN 0
    ELSE (IF Head(rows).transaction_type = type /\ Head(rows).cabinet_supercategory = cab
          THEN Head(rows).transaction_today_amt ELSE 0) + FlowSum(Tail(rows), type, cab)

\* C5: the node list is the deposit nodes, the sink, the withdrawal nodes; every
\* edge index is a position of the node list; each deposit cabinet has one edge
\* from its node to the sink carrying its deposit sum, each withdrawal cabinet
\* one edge from the sink to its node carrying its withdrawal sum.
C5_TwoLevelGraph ==
    flowsOut # None /\ flowsOut.kind = "sankey" =>
        LET g == flowsOut
            nd == Cardinality(DepCabinets)
            nw == Cardinality(WdrCabinets)
        IN  /\ Len(g.nodes) = nd + 1 + nw
            /\ {g.nodes[i] : i \in 1..nd} = {"Deposits: " \o c : c \in DepCabinets}
            /\ g.nodes[nd + 1] = "Treasury General Account (TGA)"
            /\ {g.nodes[i] : i \in (nd + 2)..(nd + 1 + nw)}
                   = {"Withdrawals: " \o c : c \in WdrCabinets}
            /\ Len(g.sources) = nd + nw /\ Len(g.targets) = nd + nw /\ Len(g.values) = nd + nw
            /\ \A k \in 1..(nd + nw) :
                  g.sources[k] \in 0..(Len(g.nodes) - 1) /\ g.targets[k] \in 0..(Len(g.nodes) - 1)
            /\ \A c \in DepCabinets :
                  \E k \in 1..nd :
                      /\ g.nodes[g.sources[k] + 1] = "Deposits: " \o c
                      /\ g.sources[k] = k - 1
                      /\ g.nodes[g.targets[k] + 1] = "Treasury General Account (TGA)"
                      /\ g.values[k] = FlowSum(FlowsDff, "Deposits", c)
            /\ \A c \in WdrCabinets :
                  \E k \in (nd + 1)..(nd + nw) :
                      /\ g.nodes[g.sources[k] + 1] = "Treasury General Account (TGA)"
                      /\ g.nodes[g.targets[k] + 1] = "Withdrawals: " \o c
                      /\ g.targets[k] = k
                      /\ g.values[k] = FlowSum(FlowsDff, "Withdrawals", c)

\* The graph of two Treasury deposit rows and one Defense withdrawal was built.
C5_Witness ==
    /\ flowsOut # None /\ flowsOut.kind = "sankey"
    /\ flowsOut.nodes = <<"Deposits: Treasury", "Treasury General Account (TGA)",
                          "Withdrawals: Defense">>
    /\ flowsOut.values = <<2500000, 1500000>>
    /\ flowsOut.sources = <<0, 1>>
    /\ flowsOut.targets = <<1, 2>>

\* C7 (as stated, two-level builder): no graph is handed to the renderer when
\* zero rows remain after the date and unmapped filters.
C7_AsStated ==
    flowsOut # None /\ flowsOut.kind = "sankey" => Len(FlowsDff) > 0

-----------------------------------------------------------------------------
(* Drilldown page: 2_Drilldown.py, from the controls to the Sankey handed to plotly *)

NProgs == 6
MaxSliderStops == 2

SliderMin == 5
SliderMax == 50
SliderStep == 5

\* Values the slider of line 98 can return (its lowest MaxSliderStops stops)
SliderValues ==
    {v \in {SliderMin + k * SliderStep : k \in 0..(MaxSliderStops - 1)} : v <= SliderMax}

DrillRow(date, type, cab, agency, program, amt) ==
    [record_date |-> date, transaction_type |-> type, cabinet_supercategory |-> cab,
     agency_rollup |-> agency, program_rollup |-> program, transaction_today_amt |-> amt]

ProgName(i) == "P" \o SubSeq(Digits, i + 1, i + 1)

\* Withdrawal rows of cabinet Treasury on one day: programs P_k .. P_1 of an agency
\* with the given amounts, last program first
RECURSIVE AgencyRows(_, _)
AgencyRows(agency, amts) ==
    IF amts = <<>> THEN <<>>
    ELSE <<DrillRow(20240105, "Withdrawals", "Treasury", agency, ProgName(Len(amts)),
                    amts[Len(amts)])>>
         \o AgencyRows(agency, SubSeq(amts, 1, Len(amts) - 1))

\* Rows that may come with them: a second day's row of IRS/P1, an unmapped deposit
ExtraRows ==
    {<<>>,
     <<DrillRow(20240107, "Withdrawals", "Treasury", "IRS", "P1", 100)>>,
     <<DrillRow(20240107, "Deposits", "Unmapped", "Unmapped", "Unmapped", 300)>>}

\* Tables of a mapping file whose cabinet_supercategory cell reads like a node
\* label of the page: two IRS withdrawals under a cabinet spelled as the IRS
\* agency node, or as the node of the program P1 of IRS
PrefixedCabinetTables ==
    {<<DrillRow(20240105, "Withdrawals", cab, "IRS", "P1", 100),
       DrillRow(20240105, "Withdrawals", cab, "IRS", "P2", 200)>> :
        cab \in {"Agency: IRS", "Program: IRS → P1"}}

\* Enriched tables the page is run on: IRS with up to NProgs programs, Army with
\* none or two; and the tables above
DrillTables ==
    ({AgencyRows("IRS", a) \o AgencyRows("Army", b) \o e :
        a \in SeqsUpTo({100, 200}, NProgs), b \in {<<>>, <<100, 100>>}, e \in ExtraRows}
     \ {<<>>})
    \cup PrefixedCabinetTables

DrillDays == {20240105, 20240107}

\* lines 54-64
DrillFilter(table, ctl) == PageFilter(table, ctl)

\* line 67: sorted(dff["cabinet_supercategory"].dropna().unique().tolist())
CabOptions(dff) == SortedStrings(CabinetsOf(dff))

\* lines 72-81: the cabinet the selectbox shows first
DefaultCab(dff, ctl, sess) ==
    LET opts == CabOptions(dff) IN
    IF sess.selected_cabinet \in Range(opts) THEN sess.selected_cabinet
    ELSE LET tmp == SumByCabinet(dff, ctl.txn_type) IN
         IF Len(tmp) = 0 THEN opts[1]
         ELSE tmp[CHOOSE i \in 1..Len(tmp) :
                    /\ \A j \in 1..Len(tmp) :
                          tmp[j].transaction_today_amt <= tmp[i].transaction_today_amt
                    /\ \A j \in 1..(i - 1) :
                          tmp[j].transaction_today_amt < tmp[i].transaction_today_amt]
                 .cabinet_supercategory

\* line 86
Selection(dff, ctl) ==
    SelectRows(dff, LAMBDA r : /\ r.cabinet_supercategory = ctl.cabinet
                               /\ r.transaction_type = ctl.txn_type)

AgenciesOf(rows) == {rows[i].agency_rollup : i \in 1..Len(rows)}
ProgramsOf(rows, agency) ==
    {rows[i].program_rollup : i \in {k \in 1..Len(rows) : rows[k].agency_rollup = agency}}

RemoveAt(s, i) == SubSeq(s, 1, i - 1) \o SubSeq(s, i + 1, Len(s))

\* sort_values("agency_total", ascending=False); equal totals keep their order
RECURSIVE SortTotalsDesc(_)
SortTotalsDesc(rows) ==
    IF rows = <<>> THEN <<>>
    ELSE LET i == CHOOSE k \in 1..Len(rows) :
                    /\ \A j \in 1..Len(rows) : rows[j].agency_total <= rows[k].agency_total
                    /\ \A j \in 1..(k - 1) : rows[j].agency_total < rows[k].agency_total
         IN  <<rows[i]>> \o SortTotalsDesc(RemoveAt(rows, i))

\* lines 101-106
AgencyTotals(x) ==
    LET agencies == SortedStrings(AgenciesOf(x)) IN
    SortTotalsDesc(
        [k \in 1..Len(agencies) |->
            [agency_rollup |-> agencies[k],
             agency_total |->
                 SumSeq(Amounts(SelectRows(x, LAMBDA r : r.agency_rollup = agencies[k])))]])

\* The programs of one agency, ascending, with their sums
ProgOfAgency(x, agency) ==
    LET progs == SortedStrings(ProgramsOf(x, agency)) IN
    [k \in 1..Len(progs) |->
        [agency_rollup |-> agency, program_rollup |-> progs[k],
         amt |-> SumSeq(Amounts(SelectRows(x,
                    LAMBDA r : r.agency_rollup = agency /\ r.program_rollup = progs[k])))]]

RECURSIVE ConcatAll(_)
ConcatAll(ss) == IF ss = <<>> THEN <<>> ELSE Head(ss) \o ConcatAll(Tail(ss))

\* lines 109-113: groupby(["agency_rollup", "program_rollup"]) sums, keys ascending
ProgTable(x) ==
    LET agencies == SortedStrings(AgenciesOf(x)) IN
    ConcatAll([k \in 1..Len(agencies) |-> ProgOfAgency(x, agencies[k])])

\* r goes before q under sort_values(["agency_rollup", "amt"], [True, False])
ProgBefore(r, q) ==
    \/ StrLess(r.agency_rollup, q.agency_rollup)
    \/ r.agency_rollup = q.agency_rollup /\ r.amt > q.amt

\* line 116; rows that compare equal keep their order
RECURSIVE SortProg(_)
SortProg(rows) ==
    IF rows = <<>> THEN <<>>
    ELSE LET i == CHOOSE k \in 1..Len(rows) :
                    /\ \A j \in 1..Len(rows) : ~ProgBefore(rows[j], rows[k])
                    /\ \A j \in 1..(k - 1) : ProgBefore(rows[k], rows[j])
         IN  <<rows[i]>> \o SortProg(RemoveAt(rows, i))

\* A rank taken over the whole table instead of within the agency
RankGlobal(prog, i) ==
    1 + Cardinality({j \in 1..Len(prog) :
            \/ prog[j].amt > prog[i].amt
            \/ prog[j].amt = prog[i].amt /\ j < i})

\* line 117: groupby("agency_rollup")["amt"].rank(method="first", ascending=False)
RankWithinAgency(prog, i) ==
    1 + Cardinality({j \in 1..Len(prog) :
            /\ prog[j].agency_rollup = prog[i].agency_rollup
            /\ \/ prog[j].amt > prog[i].amt
               \/ prog[j].amt = prog[i].amt /\ j < i})

OtherLabel == "Other (all remaining programs)"

ProgRow(agency, program, amt) ==
    [agency_rollup |-> agency, program_rollup |-> program, amt |-> amt]

\* lines 119-130: the top N programs of each agency, then one Other row for each
\* agency that has lower-ranked programs
RankAndBucket(x, n) ==
    LET prog == SortProg(ProgTable(x))
        ranked == [i \in 1..Len(prog) |-> [i |-> i, r |-> prog[i]]]
        top == SelectRows(ranked, LAMBDA e : RankWithinAgency(prog, e.i) <= n)
        other == SelectRows(ranked, LAMBDA e : RankWithinAgency(prog, e.i) > n)
        otherAgencies == SortedStrings({other[k].r.agency_rollup : k \in 1..Len(other)})
    IN  [k \in 1..Len(top) |-> top[k].r]
        \o [k \in 1..Len(otherAgencies) |->
              ProgRow(otherAgencies[k], OtherLabel,
                      SumSeq([m \in 1..Len(SelectRows(other,
                                  LAMBDA e : e.r.agency_rollup = otherAgencies[k])) |->
                              SelectRows(other,
                                  LAMBDA e : e.r.agency_rollup = otherAgencies[k])[m].r.amt]))]

AgencyNode(a) == "Agency: " \o a
ProgramNode(r) == "Program: " \o r.agency_rollup \o " → " \o r.program_rollup

\* lines 132-162
BuildDrillSankey(cabinet, x, n, default_cab) ==
    LET agency_totals == AgencyTotals(x)
        prog2 == RankAndBucket(x, n)
        agency_nodes == [k \in 1..Len(agency_totals) |-> AgencyNode(agency_totals[k].agency_rollup)]
        program_nodes == [k \in 1..Len(prog2) |-> ProgramNode(prog2[k])]
        nodes == <<cabinet>> \o agency_nodes \o program_nodes
    IN  [kind |-> "sankey",
         default_cab |-> default_cab,
         total_amt |-> SumSeq(Amounts(x)),
         prog2 |-> prog2,
         nodes |-> nodes,
         sources |-> [k \in 1..Len(agency_totals) |-> NodeIndex(nodes, cabinet)]
                     \o [k \in 1..Len(prog2) |->
                            NodeIndex(nodes, AgencyNode(prog2[k].agency_rollup))],
         targets |-> [k \in 1..Len(agency_totals) |-> NodeIndex(nodes, agency_nodes[k])]
                     \o [k \in 1..Len(prog2) |-> NodeIndex(nodes, program_nodes[k])],
         values |-> [k \in 1..Len(agency_totals) |-> agency_totals[k].agency_total]
                    \o [k \in 1..Len(prog2) |-> prog2[k].amt]]

\* What one run of the page hands to the renderer
DrilldownPage(table, ctl, sess) ==
    LET dff == DrillFilter(table, ctl) IN
    IF CabOptions(dff) = <<>>
    THEN [kind |-> "st.error", text |-> "No data available for the selected date range."]
    ELSE LET x == Selection(dff, ctl) IN
         IF x = <<>>
         THEN [kind |-> "st.warning", default_cab |-> DefaultCab(dff, ctl, sess),
               text |-> "No rows for that cabinet/transaction type in the selected range."]
         ELSE BuildDrillSankey(ctl.cabinet, x, ctl.per_agency_top,
                               DefaultCab(dff, ctl, sess))

NoCabinet == ""

\* Values the widgets of lines 36-52, 83 and 98 can hold for the table
DrillControls(table, sess) ==
    {c \in [date_range : DrillDays \X DrillDays,
            year_choice : {0} \cup {YearOf(d) : d \in DatesOf(table)},
            txn_type : {"Withdrawals", "Deposits"},
            show_unmapped : BOOLEAN,
            cabinet : {NoCabinet} \cup CabinetsOf(table),
            per_agency_top : SliderValues] :
        /\ MinOf(DatesOf(table)) <= c.date_range[1]
        /\ c.date_range[1] <= c.date_range[2]
        /\ c.date_range[2] <= MaxOf(DatesOf(table))
        /\ c.year_choice # 0 =>
              c.date_range = <<MinOf(DatesOf(table)), MaxOf(DatesOf(table))>>
        /\ LET dff == DrillFilter(table, c) IN
           IF dff = <<>>
           THEN c.cabinet = NoCabinet /\ c.per_agency_top = SliderMin
           ELSE /\ c.cabinet \in CabinetsOf(dff)
                /\ Selection(dff, c) = <<>> => c.per_agency_top = SliderMin}

InitDrill ==
    /\ drillDf \in DrillTables
    /\ drillCtl = None
    /\ drillOut = None
    /\ session \in [selected_cabinet : {NoSelection, "Treasury"}]
    /\ flowsDf = <<>> /\ flowsCtl = None /\ flowsOut = None
    /\ LocIdle /\ TxIdle /\ MapIdle /\ CacheIdle

\* One script run of the page with the widgets at some values; the session
\* state it starts from is any the Flows page can have left
DrilldownPageRun ==
    /\ drillCtl = None
    /\ \E ctl \in DrillControls(drillDf, session) :
          /\ drillCtl' = ctl
          /\ drillOut' = DrilldownPage(drillDf, ctl, session)
    /\ UNCHANGED <<drillDf, session, flowsDf, flowsCtl, flowsOut,
                   locVars, txVars, mapVars, cacheVars>>

NextDrill == DrilldownPageRun

SpecDrill == InitDrill /\ [][NextDrill]_vars

DrillX == Selection(DrillFilter(drillDf, drillCtl), drillCtl)

\* Sum of the selected rows of an agency and program
RECURSIVE ProgSum(_, _, _)
ProgSum(rows, agency, program) ==
    IF rows = <<>> THEN 0
    ELSE (IF Head(rows).agency_rollup = agency /\ Head(rows).program_rollup = program
          THEN Head(rows).transaction_today_amt ELSE 0) + ProgSum(Tail(rows), agency, program)

\* p ranks above q given their sums: larger sum, or equal sum and earlier in the
\* original row order of the program table (program names ascending)
RanksAbove(sums, p, q) ==
    \/ sums[p] > sums[q]
    \/ sums[p] = sums[q] /\ StrLess(p, q)

RECURSIVE SetSum(_, _)
SetSum(S, sums) ==
    IF S = {} THEN 0
    ELSE LET p == CHOOSE q \in S : TRUE
         IN  sums[p] + SetSum(S \ {p}, sums)

\* The claim for one agency of the selection x, limit n, and the rows the page
\* built for that agency
BucketedAsClaimed(x, a, n, rows) ==
    LET progs == ProgramsOf(x, a)
        sums == [p \in progs |-> ProgSum(x, a, p)]
        top == {p \in progs : Cardinality({q \in progs : RanksAbove(sums, q, p)}) < n}
    IN  IF Cardinality(progs) > n
        THEN /\ Len(rows) = n + 1
             /\ Cardinality(top) = n
             /\ \A p \in top : \E k \in 1..Len(rows) :
                   rows[k].program_rollup = p /\ rows[k].amt = sums[p]
             /\ Cardinality({k \in 1..Len(rows) :
                                rows[k].program_rollup = "Other (all remaining programs)"}) = 1
             /\ \E k \in 1..Len(rows) :
                   /\ rows[k].program_rollup = "Other (all remaining programs)"
                   /\ rows[k].amt = SetSum(progs \ top, sums)
        ELSE /\ Len(rows) = Cardinality(progs)
             /\ \A p \in progs : \E k \in 1..Len(rows) :
                   rows[k].program_rollup = p /\ rows[k].amt = sums[p]
             /\ \A k \in 1..Len(rows) :
                   rows[k].program_rollup # "Other (all remaining programs)"

Prog2Of(agency) == SelectRows(drillOut.prog2, LAMBDA r : r.agency_rollup = agency)

DrillGraphNeedsRows ==
    drillOut # None /\ drillOut.kind = "sankey" => Len(DrillX) > 0

StrStartsWith(s, prefix) ==
    Len(s) >= Len(prefix) /\ SubSeq(s, 1, Len(prefix)) = prefix

\* Sum of the weights of the edges (positions of the link lists) in E
RECURSIVE EdgeSum(_, _)
EdgeSum(E, values) ==
    IF E = {} THEN 0
    ELSE LET e == CHOOSE k \in E : TRUE
         IN  values[e] + EdgeSum(E \ {e}, values)

\* The graph g built for the selection x of the cabinet: the root is the first
\* entry of the node list (index 0), the node of agency a is the entry after it
\* labelled "Agency: a"
FlowConserved(g, cabinet, x) ==
    LET edges == 1..Len(g.sources)
        root == 0
        Out(i) == {e \in edges : g.sources[e] = i}
        at == AgencyTotals(x)
    IN  /\ Len(g.sources) = Len(at) + Len(g.prog2)
        /\ Len(g.targets) = Len(g.sources)
        /\ Len(g.values) = Len(g.sources)
        /\ \A e \in edges : /\ g.sources[e] \in 0..(Len(g.nodes) - 1)
                             /\ g.targets[e] \in 0..(Len(g.nodes) - 1)
        /\ \A a \in AgenciesOf(x) :
              \E i \in 1..(Len(g.nodes) - 1) :
                 /\ g.nodes[i + 1] = AgencyNode(a)
                 /\ \A j \in 1..(Len(g.nodes) - 1) : g.nodes[j + 1] = AgencyNode(a) => j = i
                 /\ Cardinality({e \in edges : g.sources[e] = root /\ g.targets[e] = i}) = 1
                 /\ \A e \in edges :
                       g.sources[e] = root /\ g.targets[e] = i =>
                          g.values[e] =
                             EdgeSum({f \in Out(i) :
                                        StrStartsWith(g.nodes[g.targets[f] + 1],
                                                      "Program: " \o a \o " → ")},
                                     g.values)
        /\ EdgeSum(Out(root), g.values) = SumSeq(Amounts(x))
        /\ \A k \in 1..Len(at) :
              /\ g.nodes[g.sources[k] + 1] = cabinet
              /\ g.nodes[g.targets[k] + 1] = AgencyNode(at[k].agency_rollup)
        /\ \A k \in 1..Len(g.prog2) :
              /\ g.nodes[g.sources[Len(at) + k] + 1] = AgencyNode(g.prog2[k].agency_rollup)
              /\ g.nodes[g.targets[Len(at) + k] + 1] = ProgramNode(g.prog2[k])

\* C11: flow conservation in the three-level graph, for every non-empty
\* selection and every N: each agency node has exactly one incoming edge from the
\* root, weighing the sum of the agency's edges to its program nodes (top N plus
\* Other); the root's outgoing weights sum to the total amount of the selection;
\* every edge's source and target index points at the node list entry carrying
\* the matching label.
C11_AsStated ==
    drillOut # None /\ drillOut.kind = "sankey" =>
        FlowConserved(drillOut, drillCtl.cabinet, DrillX)

\* C11 where the cabinet label is not also the label of an agency or program
\* node of the graph: the flow is conserved as above.
DrillFlowConservedDistinctRoot ==
    (/\ drillOut # None /\ drillOut.kind = "sankey"
     /\ drillCtl.cabinet \notin Range(Tail(drillOut.nodes))) =>
        FlowConserved(drillOut, drillCtl.cabinet, DrillX)

\* A bucketed agency next to an unbucketed one, the cabinet label distinct from
\* the other labels.
DrillFlowConservedWitness ==
    /\ drillOut # None /\ drillOut.kind = "sankey"
    /\ drillCtl.cabinet = "Treasury"
    /\ drillCtl.per_agency_top = 5
    /\ Len(drillOut.nodes) = 1 + 2 + (5 + 1) + 2
    /\ drillOut.total_amt > 0

====
